---- MODULE Spec2Model ----
(***************************************************************************)
(* Node and pod metrics controllers of karpenter, as a state machine.      *)
(*                                                                         *)
(*   pkg/controllers/metrics/node/controller.go   node gauges              *)
(*   unnamed/part_000 (pod metrics controller)    pod state gauge          *)
(*                                                                         *)
(* Quantities are integers in milli-units (resource.Quantity.MilliValue).  *)
(* Gauge values are integers in thousandths of the published float64.      *)
(* Resource names are sequences of one-character strings, so that          *)
(* strings.ToLower and strings.ReplaceAll are computed and not assumed.    *)
(***************************************************************************)
EXTENDS Integers, Sequences, FiniteSets, TLC

\* ------------------------------------------------------------------------
\* Label names of the node gauges (controller.go:39-48)
\* ------------------------------------------------------------------------
resourceType == "resource_type"
nodeName == "node_name"
nodeProvisioner == "provisioner"
nodeZone == "zone"
nodeArchitecture == "arch"
nodeCapacityType == "capacity_type"
nodeInstanceType == "instance_type"
nodePhase == "phase"

labelNames ==
  << resourceType, nodeName, nodeProvisioner, nodeZone, nodeArchitecture,
     nodeCapacityType, nodeInstanceType, nodePhase >>

\* Label names of the pod gauge (pod/controller.go:37-49)
podName == "name"
podNameSpace == "namespace"
ownerSelfLink == "owner"
podHostName == "node"
podProvisioner == "provisioner"
podHostZone == "zone"
podHostArchitecture == "arch"
podHostCapacityType == "capacity_type"
podHostInstanceType == "instance_type"
podPhase == "phase"
podLabels == "pod_labels"

getLabelNames ==
  << podName, podNameSpace, ownerSelfLink, podHostName, podProvisioner, podHostZone,
     podHostArchitecture, podHostCapacityType, podHostInstanceType, podPhase, podLabels >>

\* Well-known label keys of the Kubernetes and karpenter APIs.
ProvisionerNameLabelKey == "karpenter.sh/provisioner-name"
LabelCapacityType == "karpenter.sh/capacity-type"
LabelTopologyZone == "topology.kubernetes.io/zone"
LabelArchStable == "kubernetes.io/arch"
LabelInstanceTypeStable == "node.kubernetes.io/instance-type"

\* The six node gauge vectors (controller.go:50-105), by variable name.
allocatableGaugeVec == "allocatableGaugeVec"
podRequestsGaugeVec == "podRequestsGaugeVec"
podLimitsGaugeVec == "podLimitsGaugeVec"
daemonRequestsGaugeVec == "daemonRequestsGaugeVec"
daemonLimitsGaugeVec == "daemonLimitsGaugeVec"
overheadGaugeVec == "overheadGaugeVec"

GaugeVecs ==
  { allocatableGaugeVec, podRequestsGaugeVec, podLimitsGaugeVec,
    daemonRequestsGaugeVec, daemonLimitsGaugeVec, overheadGaugeVec }

\* ------------------------------------------------------------------------
\* Go values
\* ------------------------------------------------------------------------
\* A Go map is a function on the set of its keys; m[k] of a missing key is
\* the zero value.
EmptyMap == [k \in {} |-> 0]

MapGet(m, k) == IF k \in DOMAIN m THEN m[k] ELSE ""

\* A string that is not valid UTF-8: prometheus refuses it as a label value.
InvalidUTF8 == "\\xff"

\* A label value is a sequence of strings, read as their concatenation: a
\* string taken whole from an object is the sequence of that one string, a
\* string the code computes is the sequence of its characters.
Str(s) == << s >>

ValidUTF8(v) == \A i \in DOMAIN v : v[i] # InvalidUTF8

Range(s) == { s[i] : i \in DOMAIN s }

\* strings.ToLower, one character at a time.
UpperChars ==
  << "A", "B", "C", "D", "E", "F", "G", "H", "I", "J", "K", "L", "M",
     "N", "O", "P", "Q", "R", "S", "T", "U", "V", "W", "X", "Y", "Z" >>

LowerChars ==
  << "a", "b", "c", "d", "e", "f", "g", "h", "i", "j", "k", "l", "m",
     "n", "o", "p", "q", "r", "s", "t", "u", "v", "w", "x", "y", "z" >>

ToLowerChar(c) ==
  IF \E i \in DOMAIN UpperChars : UpperChars[i] = c
  THEN LowerChars[CHOOSE i \in DOMAIN UpperChars : UpperChars[i] = c]
  ELSE c

ToLower(s) == [i \in DOMAIN s |-> ToLowerChar(s[i])]

\* strings.ReplaceAll(s, old, new) for a one-character old and new.
ReplaceAll(s, old, new) == [i \in DOMAIN s |-> IF s[i] = old THEN new ELSE s[i]]

\* Resource names.
ResourceCPU == << "c", "p", "u" >>
ResourceMemory == << "m", "e", "m", "o", "r", "y" >>
ResourceDashed == << "g", "-", "A" >>
ResourceUnderscored == << "g", "_", "a" >>

\* resource.Quantity: MilliValue is the amount itself, Value rounds the
\* amount to a whole number away from zero.
MilliValue(q) == q

Value(q) ==
  IF q >= 0 THEN (q + 999) \div 1000 ELSE 0 - (((0 - q) + 999) \div 1000)

IsZero(q) == q = 0

\* ------------------------------------------------------------------------
\* Resource aggregation (controller.go:268-279, 302-345)
\* ------------------------------------------------------------------------
\* podutil.IsTerminal: the pod has succeeded or failed.
IsTerminal(pod) == pod.phase \in { "Succeeded", "Failed" }

\* podutil.IsOwnedByDaemonSet: one of the owner references is a DaemonSet.
IsOwnedByDaemonSet(pod) ==
  \E i \in DOMAIN pod.ownerReferences :
    pod.ownerReferences[i].kind = << "D", "a", "e", "m", "o", "n", "S", "e", "t" >>

\* An addResourceQuantity that replaces the quantity of the target.
addResourceQuantityOverwrite(valueResourceList, targetResourceList) ==
  [ n \in DOMAIN valueResourceList \cup DOMAIN targetResourceList |->
      IF n \in DOMAIN valueResourceList THEN valueResourceList[n] ELSE targetResourceList[n] ]

\* addResourceQuantity: each quantity of the value list is added to the
\* target list, a missing name starting from the quantity itself.
addResourceQuantity(valueResourceList, targetResourceList) ==
  [ n \in DOMAIN valueResourceList \cup DOMAIN targetResourceList |->
      IF n \notin DOMAIN targetResourceList THEN valueResourceList[n]
      ELSE IF n \in DOMAIN valueResourceList
           THEN targetResourceList[n] + valueResourceList[n]
           ELSE targetResourceList[n] ]

RECURSIVE addContainers(_, _, _)
addContainers(containers, i, acc) ==
  IF i > Len(containers) THEN acc
  ELSE addContainers(containers, i + 1,
         [ reqs |-> addResourceQuantity(containers[i].requests, acc.reqs),
           limits |-> addResourceQuantity(containers[i].limits, acc.limits) ])

\* An overhead that is added to the limits whatever they hold.
addOverheadToAllLimits(overhead, limits) == addResourceQuantity(overhead, limits)

\* The overhead is added to the limits that exist and are not zero.
addOverheadToLimits(overhead, limits) ==
  [ n \in DOMAIN limits |->
      IF n \in DOMAIN overhead /\ ~IsZero(limits[n])
      THEN limits[n] + overhead[n]
      ELSE limits[n] ]

\* An addPod that counts the terminal pods too.
addPodTerminalToo(pod, acc) ==
  LET c == addContainers(pod.containers, 1, acc)
  IN IF pod.hasOverhead
     THEN [ reqs |-> addResourceQuantity(pod.overhead, c.reqs),
            limits |-> addOverheadToLimits(pod.overhead, c.limits) ]
     ELSE c

\* One pod of the loop of getPodsTotalRequestsAndLimits: a terminal pod is
\* skipped; the containers are added, then the overhead.
addPod(pod, acc) ==
  IF IsTerminal(pod) THEN acc
  ELSE LET c == addContainers(pod.containers, 1, acc)
       IN IF pod.hasOverhead
          THEN [ reqs |-> addResourceQuantity(pod.overhead, c.reqs),
                 limits |-> addOverheadToLimits(pod.overhead, c.limits) ]
          ELSE c

RECURSIVE sumPods(_, _, _)
sumPods(pods, i, acc) ==
  IF i > Len(pods) THEN acc ELSE sumPods(pods, i + 1, addPod(pods[i], acc))

getPodsTotalRequestsAndLimits(pods) ==
  sumPods(pods, 1, [ reqs |-> EmptyMap, limits |-> EmptyMap ])

\* A getSystemOverhead that ranges over the capacity of the node.
getSystemOverheadOfCapacity(node) ==
  IF Cardinality(DOMAIN node.allocatable) > 0
  THEN [ n \in DOMAIN node.capacity |->
           node.capacity[n] - (IF n \in DOMAIN node.allocatable THEN node.allocatable[n] ELSE 0) ]
  ELSE EmptyMap

getSystemOverhead(node) ==
  IF Cardinality(DOMAIN node.allocatable) > 0
  THEN [ n \in DOMAIN node.allocatable |->
           (IF n \in DOMAIN node.capacity THEN node.capacity[n] ELSE 0)
             - node.allocatable[n] ]
  ELSE EmptyMap

\* ------------------------------------------------------------------------
\* Label projection of a node (controller.go:210-230)
\* ------------------------------------------------------------------------
\* A generateLabels that leaves out the zone of a node without a zone label.
generateLabelsOmitsZone(node, resourceTypeName) ==
  LET labels ==
        (resourceType :> resourceTypeName)
        @@ (nodeName :> Str(node.name))
        @@ (nodeProvisioner :>
              IF ProvisionerNameLabelKey \notin DOMAIN node.labels THEN Str("N/A")
              ELSE Str(node.labels[ProvisionerNameLabelKey]))
        @@ (nodeZone :> Str(MapGet(node.labels, LabelTopologyZone)))
        @@ (nodeArchitecture :> Str(MapGet(node.labels, LabelArchStable)))
        @@ (nodeCapacityType :>
              IF LabelCapacityType \notin DOMAIN node.labels THEN Str("N/A")
              ELSE Str(node.labels[LabelCapacityType]))
        @@ (nodeInstanceType :> Str(MapGet(node.labels, LabelInstanceTypeStable)))
        @@ (nodePhase :> Str(node.phase))
  IN IF LabelTopologyZone \in DOMAIN node.labels THEN labels
     ELSE [x \in DOMAIN labels \ { nodeZone } |-> labels[x]]

generateLabels(node, resourceTypeName) ==
  (resourceType :> resourceTypeName)
  @@ (nodeName :> Str(node.name))
  @@ (nodeProvisioner :>
        IF ProvisionerNameLabelKey \notin DOMAIN node.labels THEN Str("N/A")
        ELSE Str(node.labels[ProvisionerNameLabelKey]))
  @@ (nodeZone :> Str(MapGet(node.labels, LabelTopologyZone)))
  @@ (nodeArchitecture :> Str(MapGet(node.labels, LabelArchStable)))
  @@ (nodeCapacityType :>
        IF LabelCapacityType \notin DOMAIN node.labels THEN Str("N/A")
        ELSE Str(node.labels[LabelCapacityType]))
  @@ (nodeInstanceType :> Str(MapGet(node.labels, LabelInstanceTypeStable)))
  @@ (nodePhase :> Str(node.phase))

\* ------------------------------------------------------------------------
\* Gauge vectors of the prometheus client
\* ------------------------------------------------------------------------
\* A Delete that removes nothing.
DeleteNothing(vec, labels) == vec

\* GaugeVec.Delete(labels): the series is removed if it is there.
Delete(vec, labels) == [l \in DOMAIN vec \ { labels } |-> vec[l]]

\* GaugeVec.GetMetricWith(labels) fails when the label names are not the
\* vector's or a label value is not valid UTF-8.
GetMetricWithFails(names, labels) ==
  \/ DOMAIN labels # Range(names)
  \/ \E n \in DOMAIN labels : ~ValidUTF8(labels[n])

\* GetMetricWith(labels) followed by Set(v): the series is created or replaced.
Set(vec, labels, v) == [l \in DOMAIN vec \cup { labels } |-> IF l = labels THEN v ELSE vec[l]]

\* ------------------------------------------------------------------------
\* The cluster the controllers watch
\* ------------------------------------------------------------------------
NodeNames == { "n1", "n2" }

NoNode ==
  [ exists |-> FALSE, name |-> "", labels |-> EmptyMap, capacity |-> EmptyMap,
    allocatable |-> EmptyMap, phase |-> "" ]

NodeObject(labels, capacity, allocatable) ==
  [ exists |-> TRUE, name |-> "", labels |-> labels, capacity |-> capacity,
    allocatable |-> allocatable, phase |-> "" ]

LabelsOf(provisioner, zone) ==
  (ProvisionerNameLabelKey :> provisioner) @@ (LabelTopologyZone :> zone)
  @@ (LabelArchStable :> "amd64") @@ (LabelCapacityType :> "spot")
  @@ (LabelInstanceTypeStable :> "m5.large")

\* The node objects of the model: a node of provisioner pA, the same node
\* moved to provisioner pB and another zone, a node without labels that
\* reports no allocatable, a node with a label value that is not UTF-8, and
\* a node with two resource names that differ in case and in '-' and '_'.
FirstNodeObject ==
  NodeObject(LabelsOf("pA", "z1"), (ResourceCPU :> 4000), (ResourceCPU :> 3800))

NodeObjects ==
  { FirstNodeObject,
    NodeObject(LabelsOf("pB", "z2"), (ResourceCPU :> 4000), (ResourceCPU :> 3800)),
    NodeObject(EmptyMap, (ResourceCPU :> 4000) @@ (ResourceMemory :> 8000), EmptyMap),
    NodeObject(LabelsOf("pA", InvalidUTF8), (ResourceCPU :> 4000), (ResourceCPU :> 3800)),
    NodeObject(LabelsOf("pA", "z1"),
               (ResourceDashed :> 2000) @@ (ResourceUnderscored :> 4000),
               (ResourceDashed :> 1000) @@ (ResourceUnderscored :> 3000)) }

\* The objects of the second node.
SecondNodeObjects == { FirstNodeObject }

PodKeys == { [namespace |-> "default", name |-> "p1"], [namespace |-> "default", name |-> "p2"] }

NoPod ==
  [ exists |-> FALSE, nodeName |-> "", phase |-> "", ownerReferences |-> << >>,
    containers |-> << >>, hasOverhead |-> FALSE, overhead |-> EmptyMap,
    labels |-> EmptyMap, nodeSelector |-> EmptyMap ]

DaemonSetOwner ==
  [ apiVersion |-> "apps/v1", kind |-> << "D", "a", "e", "m", "o", "n", "S", "e", "t" >>,
    name |-> "ds" ]

\* The pod objects of the model: p1 is a regular pod (request cpu=1, limit
\* cpu=2) that runs and then succeeds, p2 a daemon pod (request cpu=0.2, no
\* limit) selected onto provisioner pA; both are assigned to n1.
PodObjects(k) ==
  IF k.name = "p1"
  THEN { [ NoPod EXCEPT !.exists = TRUE, !.nodeName = "n1", !.phase = ph,
             !.labels = ("app" :> "web"),
             !.containers = << [requests |-> (ResourceCPU :> 1000), limits |-> (ResourceCPU :> 2000)] >> ]
           : ph \in { "Running", "Succeeded" } }
  ELSE { [ NoPod EXCEPT !.exists = TRUE, !.nodeName = "n1", !.phase = "Running",
             !.ownerReferences = << DaemonSetOwner >>,
             !.nodeSelector = (ProvisionerNameLabelKey :> "pA"),
             !.containers = << [requests |-> (ResourceCPU :> 200), limits |-> EmptyMap] >> ] }

FirstPodObject(k) == CHOOSE o \in PodObjects(k) : o.phase = "Running"

\* Changes of the cluster a behaviour may make.
MaxChanges == 2

\* Workers a controller may run (MaxConcurrentReconciles).
Workers == { 1, 2 }

NamedNode(o, n) == [o EXCEPT !.name = n]

NodeChoices(n) ==
  { NoNode } \cup { NamedNode(o, n) : o \in IF n = "n1" THEN NodeObjects ELSE SecondNodeObjects }

PodChoices(k) == { NoPod } \cup PodObjects(k)

\* The permutations of a finite set, as sequences: the orders in which Go
\* may range over a map with these keys.
Perms(S) ==
  { s \in [1..Cardinality(S) -> S] : \A i, j \in 1..Cardinality(S) : s[i] = s[j] => i = j }

\* ------------------------------------------------------------------------
\* State
\* ------------------------------------------------------------------------
VARIABLES
  nodes,                    \* the nodes of the cluster, by name
  pods,                     \* the pods of the cluster, by key
  budget,                   \* cluster changes the behaviour may still make
  maxConcurrentReconciles,  \* workers the runtime gives the node controller
  enqueued,                 \* what the last watch event was mapped to
  volumeTopology,           \* the last call of VolumeTopology.Inject
  liveness,                 \* the last call of Liveness.Reconcile
  LabelSliceMap,            \* node controller: Controller.LabelSliceMap
  gaugeVec,                 \* node controller: the six gauge vectors
  worker,                   \* node controller: each worker's reconciliation
  history,                  \* what each node reconciliation started from
  last,                     \* per node, the reconciliations completed so far
  LabelsMap,                \* pod controller: Controller.LabelsMap
  podGaugeVec,              \* pod controller: the pod state gauge vector
  podWorker,                \* pod controller: its worker's reconciliation
  podHistory                \* what the pod reconciliation started from

cluster == << nodes, pods, budget, maxConcurrentReconciles, enqueued, volumeTopology, liveness >>
nodeController == << LabelSliceMap, gaugeVec, worker, history, last >>
podController == << LabelsMap, podGaugeVec, podWorker, podHistory >>

vars ==
  << nodes, pods, budget, maxConcurrentReconciles, enqueued, volumeTopology, liveness,
     LabelSliceMap, gaugeVec,
     worker, history, last, LabelsMap, podGaugeVec, podWorker, podHistory >>

\* The series of a node in a gauge vector.
SeriesOf(vec, name) ==
  [l \in { x \in DOMAIN vec : x[nodeName] = Str(name) } |-> vec[l]]

AllSeriesOf(vecs, name) == [g \in GaugeVecs |-> SeriesOf(vecs[g], name)]

NoSeries == [g \in GaugeVecs |-> EmptyMap]

IdleWorker ==
  [ pc |-> "idle", req |-> "", ok |-> FALSE, labelSlice |-> << >>, node |-> NoNode,
    err |-> FALSE ]

\* history[w], written when worker w starts and as it goes:
\*   series, tracked, entry  the node's series, its slice in LabelSliceMap
\*                           and whether it had one, when w started
\*   changed                 the node or its pods changed since w started
\*   found                   w fetched the node
\*   lists                   the resource list w published to each gauge vector
\*   failed                  the gauge vectors whose insertGaugeValues failed
NoHistory ==
  [ series |-> NoSeries, tracked |-> << >>, entry |-> FALSE, changed |-> FALSE,
    found |-> FALSE, lists |-> NoSeries, failed |-> {} ]

\* last[n], written when a reconciliation of n returns and reset when the
\* node or its pods change:
\*   stable    a reconciliation of n has returned, and neither the node nor
\*             its pods changed since that reconciliation started
\*   notFound  that reconciliation fetched the node and did not find it
\*   ok        that reconciliation returned nil
\*   series    the node's series when that reconciliation returned
\*   tracked   the node's slice in LabelSliceMap when it returned
NoLast ==
  [ stable |-> FALSE, notFound |-> FALSE, ok |-> FALSE, series |-> NoSeries, tracked |-> << >> ]

\* The cluster at the start: n1 of provisioner pA with both pods, and n2.
InitCluster ==
  /\ nodes = [n \in NodeNames |-> NamedNode(FirstNodeObject, n)]
  /\ pods = [k \in PodKeys |-> FirstPodObject(k)]

\* podWorker: the request, the pod Reconcile fetched, the node generateLabels
\* fetched (NoNode when its Get returned an error) and the error returned.
IdlePodWorker ==
  [ pc |-> "idle", req |-> [namespace |-> "", name |-> ""], pod |-> NoPod,
    node |-> NoNode, err |-> FALSE ]

\* podHistory, written when the pod worker starts: the pod's series, its
\* labels in LabelsMap and whether it had any.
NoPodHistory == [ series |-> EmptyMap, tracked |-> EmptyMap, entry |-> FALSE, found |-> FALSE ]

\* enqueued, written by the map functions of Register: the event, the name
\* of the provisioner or the pod of the event, whether the list of the nodes
\* failed, and the names of the nodes of the requests returned.
NoRequests ==
  [ event |-> "", provisioner |-> "", pod |-> NoPod, failed |-> FALSE, requests |-> << >> ]

\* The pod of a call of Inject: its volumes and its affinity. affinity,
\* nodeAffinity and required tell whether Spec.Affinity, its NodeAffinity
\* and its RequiredDuringSchedulingIgnoredDuringExecution are set;
\* nodeSelectorTerms are the terms of the latter, each the sequence of its
\* match expressions.
NoInjectPod ==
  [ volumes |-> << >>, affinity |-> FALSE, nodeAffinity |-> FALSE, required |-> FALSE,
    nodeSelectorTerms |-> << >> ]

\* volumeTopology, written by Inject: the pod it was given, the objects whose
\* Get failed, the pod it left, the error it returned and whether it
\* panicked.
NoInject ==
  [ pc |-> "idle", given |-> NoInjectPod, failing |-> {}, pod |-> NoInjectPod, err |-> FALSE ]

\* liveness, written by Liveness.Reconcile: the age of the node in minutes,
\* the reason of its Ready condition, whether Delete was called and failed,
\* the RequeueAfter of the result and the error returned.
NoLiveness ==
  [ pc |-> "idle", age |-> 0, conditions |-> << >>, deleteCalled |-> FALSE,
    deleteFailed |-> FALSE, requeueAfter |-> 0, err |-> FALSE ]

InitControllers ==
  /\ enqueued = NoRequests
  /\ volumeTopology = NoInject
  /\ liveness = NoLiveness
  /\ LabelSliceMap = EmptyMap
  /\ gaugeVec = [g \in GaugeVecs |-> EmptyMap]
  /\ worker = [w \in Workers |-> IdleWorker]
  /\ history = [w \in Workers |-> NoHistory]
  /\ last = [n \in NodeNames |-> NoLast]
  /\ LabelsMap = EmptyMap
  /\ podGaugeVec = EmptyMap
  /\ podWorker = IdlePodWorker
  /\ podHistory = NoPodHistory

Init == InitCluster /\ InitControllers /\ budget = MaxChanges /\ maxConcurrentReconciles = 1

\* ------------------------------------------------------------------------
\* The cluster changes
\* ------------------------------------------------------------------------
\* The pods of a node.
PodsOn(ps, name) == { k \in PodKeys : ps[k].exists /\ ps[k].nodeName = name }

\* A change of node n or of its pods is noted for the reconciliations of n.
NoteChange(affected) ==
  /\ last' = [n \in NodeNames |-> IF n \in affected THEN NoLast ELSE last[n]]
  /\ history' = [w \in Workers |->
                   IF worker[w].pc # "idle" /\ worker[w].req \in affected
                   THEN [history[w] EXCEPT !.changed = TRUE] ELSE history[w]]

\* A node is created, updated or deleted.
ChangeNode(n, o) ==
  /\ budget > 0
  /\ o # nodes[n]
  /\ nodes' = [nodes EXCEPT ![n] = o]
  /\ budget' = budget - 1
  /\ NoteChange({ n })
  /\ UNCHANGED << pods, maxConcurrentReconciles, enqueued, volumeTopology, liveness,
                  LabelSliceMap, gaugeVec, worker, podController >>

\* A pod is created, updated or deleted.
ChangePod(k, o) ==
  /\ budget > 0
  /\ o # pods[k]
  /\ pods' = [pods EXCEPT ![k] = o]
  /\ budget' = budget - 1
  /\ NoteChange({ pods[k].nodeName, o.nodeName })
  /\ UNCHANGED << nodes, maxConcurrentReconciles, enqueued, volumeTopology, liveness,
                  LabelSliceMap, gaugeVec, worker, podController >>

\* ------------------------------------------------------------------------
\* Node controller (controller.go:142-160, 195-208, 232-300)
\* ------------------------------------------------------------------------
\* A deletion that reaches the allocatable gauge vector only.
deleteAllocatableOnly(vecs, labelSlice, i) ==
  [g \in GaugeVecs |->
     IF g = allocatableGaugeVec
     THEN [l \in DOMAIN vecs[g] \ Range(labelSlice) |-> vecs[g][l]]
     ELSE vecs[g]]

\* deleteGauges from index i of the slice: each label is deleted from the six
\* gauge vectors.
RECURSIVE deleteAll(_, _, _)
deleteAll(vecs, labelSlice, i) ==
  IF i > Len(labelSlice) THEN vecs
  ELSE deleteAll([g \in GaugeVecs |-> Delete(vecs[g], labelSlice[i])], labelSlice, i + 1)

\* The gauge value of a quantity, in thousandths: cpu is published in cores
\* with its milli-units, every other resource as its whole value.
GaugeValue(resourceName, quantity) ==
  IF resourceName = ResourceCPU THEN MilliValue(quantity) ELSE Value(quantity) * 1000

\* The resource_type of a resource name: lower case, '-' replaced by '_'.
ResourceTypeName(resourceName) == ReplaceAll(ToLower(resourceName), "-", "_")

\* An insertGaugeValues that does not record the labels in the node's slice.
RECURSIVE insertGaugeValuesUntracked(_, _, _, _, _)
insertGaugeValuesUntracked(resourceList, node, order, i, acc) ==
  IF i > Len(order) THEN acc
  ELSE LET resourceName == order[i]
           labels == generateLabels(node, ResourceTypeName(resourceName))
       IN IF GetMetricWithFails(labelNames, labels)
          THEN [ vec |-> acc.vec, slice |-> acc.slice, err |-> TRUE ]
          ELSE insertGaugeValuesUntracked(resourceList, node, order, i + 1,
                 [ vec |-> Set(acc.vec, labels, GaugeValue(resourceName, resourceList[resourceName])),
                   slice |-> acc.slice, err |-> FALSE ])

\* insertGaugeValues, ranging over the resource list in the given order.
\* acc is the gauge vector, the node's slice in LabelSliceMap and the error.
RECURSIVE insertGaugeValues(_, _, _, _, _)
insertGaugeValues(resourceList, node, order, i, acc) ==
  IF i > Len(order) THEN acc
  ELSE LET resourceName == order[i]
           resourceTypeName == ResourceTypeName(resourceName)
           labels == generateLabels(node, resourceTypeName)
           slice == Append(acc.slice, labels)
       IN IF GetMetricWithFails(labelNames, labels)
          THEN [ vec |-> acc.vec, slice |-> slice, err |-> TRUE ]
          ELSE insertGaugeValues(resourceList, node, order, i + 1,
                 [ vec |-> Set(acc.vec, labels, GaugeValue(resourceName, resourceList[resourceName])),
                   slice |-> slice, err |-> FALSE ])

\* The order in which updateGauges visits the gauge vectors in the model.
\* Go visits them in an unspecified order; the gauge vectors are independent
\* and an error of one does not stop the others, so the order only permutes
\* the node's slice in LabelSliceMap.
GaugeOrder ==
  << overheadGaugeVec, podRequestsGaugeVec, podLimitsGaugeVec,
     daemonRequestsGaugeVec, daemonLimitsGaugeVec, allocatableGaugeVec >>

\* The resource list updateGauges publishes to each gauge vector.
ResourceLists(node, podlist) ==
  LET daemonSetPods == SelectSeq(podlist, LAMBDA p : IsOwnedByDaemonSet(p))
      regularPods == SelectSeq(podlist, LAMBDA p : ~IsOwnedByDaemonSet(p))
      pod == getPodsTotalRequestsAndLimits(regularPods)
      daemon == getPodsTotalRequestsAndLimits(daemonSetPods)
      allocatable == IF Cardinality(DOMAIN node.allocatable) > 0
                     THEN node.allocatable ELSE node.capacity
  IN (overheadGaugeVec :> getSystemOverhead(node))
     @@ (podRequestsGaugeVec :> pod.reqs)
     @@ (podLimitsGaugeVec :> pod.limits)
     @@ (daemonRequestsGaugeVec :> daemon.reqs)
     @@ (daemonLimitsGaugeVec :> daemon.limits)
     @@ (allocatableGaugeVec :> allocatable)

\* The loop of updateGauges over the six gauge vectors; orders[g] is the
\* order in which insertGaugeValues ranges over the resource list of g.
\* acc is the gauge vectors, the node's slice and the vectors that failed.
RECURSIVE populate(_, _, _, _, _)
populate(lists, node, orders, i, acc) ==
  IF i > Len(GaugeOrder) THEN acc
  ELSE LET g == GaugeOrder[i]
           r == insertGaugeValues(lists[g], node, orders[g], 1,
                  [ vec |-> acc.vecs[g], slice |-> acc.slice, err |-> FALSE ])
       IN populate(lists, node, orders, i + 1,
            [ vecs |-> [acc.vecs EXCEPT ![g] = r.vec], slice |-> r.slice,
              failed |-> IF r.err THEN acc.failed \cup { g } ELSE acc.failed ])

Active == { w \in Workers : worker[w].pc # "idle" }

\* The runtime hands a request for node n to an idle worker; Reconcile calls
\* deleteGauges, which reads the node's slice in LabelSliceMap.
Reconcile(w, n) ==
  /\ worker[w].pc = "idle"
  /\ \A v \in Workers : v < w => worker[v].pc # "idle"
  /\ Cardinality(Active) < maxConcurrentReconciles
  /\ \A v \in Active : worker[v].req # n
  /\ worker' = [worker EXCEPT ![w] =
       [ IdleWorker EXCEPT !.pc = "deleteGauges", !.req = n,
           !.ok = n \in DOMAIN LabelSliceMap,
           !.labelSlice = IF n \in DOMAIN LabelSliceMap THEN LabelSliceMap[n] ELSE << >> ]]
  /\ history' = [history EXCEPT ![w] =
       [ NoHistory EXCEPT !.series = AllSeriesOf(gaugeVec, n),
           !.entry = n \in DOMAIN LabelSliceMap,
           !.tracked = IF n \in DOMAIN LabelSliceMap THEN LabelSliceMap[n] ELSE << >> ]]
  /\ UNCHANGED << cluster, podController, LabelSliceMap, gaugeVec, last >>

\* A deleteGauges that empties the node's slice and leaves the series.
deleteGaugesKeepsSeries(w) ==
  /\ worker[w].pc = "deleteGauges"
  /\ LabelSliceMap' = (worker[w].req :> << >>) @@ LabelSliceMap
  /\ worker' = [worker EXCEPT ![w].pc = "get", ![w].labelSlice = << >>, ![w].ok = FALSE]
  /\ UNCHANGED << cluster, podController, history, last, gaugeVec >>

\* deleteGauges deletes the labels it read from the six gauge vectors and
\* empties the node's slice.
deleteGauges(w) ==
  /\ worker[w].pc = "deleteGauges"
  /\ gaugeVec' = IF worker[w].ok THEN deleteAll(gaugeVec, worker[w].labelSlice, 1) ELSE gaugeVec
  /\ LabelSliceMap' = (worker[w].req :> << >>) @@ LabelSliceMap
  /\ worker' = [worker EXCEPT ![w].pc = "get", ![w].labelSlice = << >>, ![w].ok = FALSE]
  /\ UNCHANGED << cluster, podController, history, last >>

\* KubeClient.Get of the node: an error, not found, or the node.
Get(w) ==
  /\ worker[w].pc = "get"
  /\ \E fails \in BOOLEAN :
       /\ worker' = [worker EXCEPT ![w] =
            IF fails THEN [@ EXCEPT !.pc = "done", !.err = TRUE]
            ELSE IF ~nodes[worker[w].req].exists THEN [@ EXCEPT !.pc = "done"]
            ELSE [@ EXCEPT !.pc = "updateGauges", !.node = nodes[worker[w].req]]]
       /\ history' = [history EXCEPT ![w].found = ~fails /\ nodes[worker[w].req].exists]
  /\ UNCHANGED << cluster, podController, LabelSliceMap, gaugeVec, last >>

\* updateGauges fails when the pods cannot be listed.
updateGaugesListFails(w) ==
  /\ worker[w].pc = "updateGauges"
  /\ worker' = [worker EXCEPT ![w].pc = "done", ![w].err = TRUE]
  /\ UNCHANGED << cluster, podController, LabelSliceMap, gaugeVec, history, last >>

\* updateGauges lists the pods of the node and populates the six gauge
\* vectors; an error of insertGaugeValues is logged and nil is returned.
updateGauges(w) ==
  /\ worker[w].pc = "updateGauges"
  /\ LET node == worker[w].node
         key == node.name
     IN \E keys \in Perms(PodsOn(pods, node.name)) :
          LET podlist == [i \in DOMAIN keys |-> pods[keys[i]]]
              lists == ResourceLists(node, podlist)
          IN \E o1 \in Perms(DOMAIN lists[GaugeOrder[1]]), o2 \in Perms(DOMAIN lists[GaugeOrder[2]]),
                o3 \in Perms(DOMAIN lists[GaugeOrder[3]]), o4 \in Perms(DOMAIN lists[GaugeOrder[4]]),
                o5 \in Perms(DOMAIN lists[GaugeOrder[5]]), o6 \in Perms(DOMAIN lists[GaugeOrder[6]]) :
               /\ LET orders == (GaugeOrder[1] :> o1) @@ (GaugeOrder[2] :> o2) @@ (GaugeOrder[3] :> o3)
                                @@ (GaugeOrder[4] :> o4) @@ (GaugeOrder[5] :> o5) @@ (GaugeOrder[6] :> o6)
                      r == populate(lists, node, orders, 1,
                             [ vecs |-> gaugeVec,
                               slice |-> IF key \in DOMAIN LabelSliceMap THEN LabelSliceMap[key] ELSE << >>,
                               failed |-> {} ])
                  IN /\ gaugeVec' = r.vecs
                     /\ LabelSliceMap' = IF Len(r.slice) > 0 \/ key \in DOMAIN LabelSliceMap
                                         THEN (key :> r.slice) @@ LabelSliceMap
                                         ELSE LabelSliceMap
                     /\ history' = [history EXCEPT ![w].lists = lists, ![w].failed = r.failed]
  /\ worker' = [worker EXCEPT ![w].pc = "done"]
  /\ UNCHANGED << cluster, podController, last >>

\* Reconcile returns to the runtime.
Return(w) ==
  /\ worker[w].pc = "done"
  /\ last' = [last EXCEPT ![worker[w].req] =
       IF history[w].changed THEN NoLast
       ELSE [ stable |-> TRUE, notFound |-> ~history[w].found /\ ~worker[w].err,
              ok |-> ~worker[w].err,
              series |-> AllSeriesOf(gaugeVec, worker[w].req),
              tracked |-> IF worker[w].req \in DOMAIN LabelSliceMap
                          THEN LabelSliceMap[worker[w].req] ELSE << >> ]]
  /\ worker' = [worker EXCEPT ![w] = IdleWorker]
  /\ history' = [history EXCEPT ![w] = NoHistory]
  /\ UNCHANGED << cluster, podController, LabelSliceMap, gaugeVec >>

\* Worker w is about to write LabelSliceMap: in deleteGauges, or in the
\* insertGaugeValues of a node that has a resource to publish.
WritesLabelSliceMap(w) ==
  \/ worker[w].pc = "deleteGauges"
  \/ /\ worker[w].pc = "updateGauges"
     /\ DOMAIN worker[w].node.capacity \cup DOMAIN worker[w].node.allocatable # {}

\* Two workers write LabelSliceMap, a Go map no lock guards, at the same
\* time. The writes are a data race: they may both take effect, which is
\* the steps of the two workers one after the other, or the Go runtime stops
\* the process with "fatal error: concurrent map writes", and the series of
\* the gauge vectors and the map are lost with the process.
concurrentMapWrites(v, w) ==
  /\ v # w
  /\ WritesLabelSliceMap(v)
  /\ WritesLabelSliceMap(w)
  /\ worker' = [x \in Workers |-> [worker[x] EXCEPT !.pc = "fatal"]]
  /\ gaugeVec' = [g \in GaugeVecs |-> EmptyMap]
  /\ LabelSliceMap' = EmptyMap
  /\ UNCHANGED << cluster, podController, history, last >>

\* ------------------------------------------------------------------------
\* Pod controller (pod/controller.go:98-136, 147-188)
\* ------------------------------------------------------------------------
\* The series of a pod in the pod gauge vector.
PodSeriesOf(vec, key) ==
  [l \in { x \in DOMAIN vec : x[podName] = Str(key.name) /\ x[podNameSpace] = Str(key.namespace) }
     |-> vec[l]]

\* fmt.Sprintf("/apis/%s/namespaces/%s/%ss/%s", ...) of the first owner.
Selflink(pod, namespace) ==
  IF Len(pod.ownerReferences) > 0
  THEN LET ownerreference == pod.ownerReferences[1]
       IN << "/apis/", ownerreference.apiVersion, "/namespaces/", namespace, "/" >>
          \o ToLower(ownerreference.kind) \o << "s/", ownerreference.name >>
  ELSE Str("")

\* The label keys of the model's pods, in the order json.Marshal writes them.
SortedKeys == << "app", "tier" >>

\* json.Marshal of a map of strings: null for the nil map, the pairs in key
\* order otherwise, a string that is not UTF-8 replaced by U+FFFD. It never
\* returns an error for a map of strings.
RECURSIVE marshalPairs(_, _)
marshalPairs(m, i) ==
  IF i > Len(SortedKeys) THEN << >>
  ELSE IF SortedKeys[i] \in DOMAIN m
       THEN << SortedKeys[i], ":", IF m[SortedKeys[i]] = InvalidUTF8 THEN "\\ufffd" ELSE m[SortedKeys[i]], "," >>
            \o marshalPairs(m, i + 1)
       ELSE marshalPairs(m, i + 1)

Marshal(m) ==
  [ err |-> FALSE,
    out |-> IF DOMAIN m = {} THEN Str("null") ELSE << "{" >> \o marshalPairs(m, 1) \o << "}" >> ]

\* A generateLabels without the node selector of the pod: the labels of the
\* host are read from the node whether or not it was fetched.
pod_generateLabelsNoHint(key, pod, node) ==
  LET labels == Marshal(pod.labels)
  IN [ err |-> labels.err,
       labels |-> (podName :> Str(key.name)) @@ (podNameSpace :> Str(key.namespace))
                  @@ (ownerSelfLink :> Selflink(pod, key.namespace))
                  @@ (podHostName :> Str(pod.nodeName)) @@ (podPhase :> Str(pod.phase))
                  @@ (podHostZone :> Str(MapGet(node.labels, LabelTopologyZone)))
                  @@ (podHostArchitecture :> Str(MapGet(node.labels, LabelArchStable)))
                  @@ (podHostCapacityType :> Str(MapGet(node.labels, LabelCapacityType)))
                  @@ (podHostInstanceType :> Str(MapGet(node.labels, LabelInstanceTypeStable)))
                  @@ (podProvisioner :> Str(MapGet(node.labels, ProvisionerNameLabelKey)))
                  @@ (podLabels :> labels.out) ]

\* generateLabels of the pod controller; node.exists is FALSE when the Get
\* of the pod's node returned an error.
pod_generateLabels(key, pod, node) ==
  LET host ==
        IF ~node.exists
        THEN (podHostZone :> Str("")) @@ (podHostArchitecture :> Str(""))
             @@ (podHostCapacityType :> Str("")) @@ (podHostInstanceType :> Str(""))
             @@ (podProvisioner :>
                   IF ProvisionerNameLabelKey \in DOMAIN pod.nodeSelector
                   THEN Str(pod.nodeSelector[ProvisionerNameLabelKey]) ELSE Str(""))
        ELSE (podHostZone :> Str(MapGet(node.labels, LabelTopologyZone)))
             @@ (podHostArchitecture :> Str(MapGet(node.labels, LabelArchStable)))
             @@ (podHostCapacityType :> Str(MapGet(node.labels, LabelCapacityType)))
             @@ (podHostInstanceType :> Str(MapGet(node.labels, LabelInstanceTypeStable)))
             @@ (podProvisioner :> Str(MapGet(node.labels, ProvisionerNameLabelKey)))
      labels == Marshal(pod.labels)
  IN [ err |-> labels.err,
       labels |-> (podName :> Str(key.name)) @@ (podNameSpace :> Str(key.namespace))
                  @@ (ownerSelfLink :> Selflink(pod, key.namespace))
                  @@ (podHostName :> Str(pod.nodeName)) @@ (podPhase :> Str(pod.phase))
                  @@ host @@ (podLabels :> labels.out) ]

\* A Reconcile that leaves the previous gauge of a pod it finds.
pod_ReconcileKeepsPrevious(k) ==
  /\ podWorker.pc = "idle"
  /\ \E fails \in BOOLEAN :
       /\ podWorker' =
            IF fails THEN [ IdlePodWorker EXCEPT !.pc = "done", !.req = k, !.err = TRUE ]
            ELSE IF ~pods[k].exists THEN [ IdlePodWorker EXCEPT !.pc = "done", !.req = k ]
            ELSE [ IdlePodWorker EXCEPT !.pc = "generateLabels", !.req = k, !.pod = pods[k] ]
       /\ podGaugeVec' =
            IF ~fails /\ ~pods[k].exists /\ k \in DOMAIN LabelsMap THEN Delete(podGaugeVec, LabelsMap[k])
            ELSE podGaugeVec
       /\ podHistory' =
            [ series |-> PodSeriesOf(podGaugeVec, k),
              tracked |-> IF k \in DOMAIN LabelsMap THEN LabelsMap[k] ELSE EmptyMap,
              entry |-> k \in DOMAIN LabelsMap,
              found |-> ~fails /\ pods[k].exists ]
  /\ UNCHANGED << cluster, nodeController, LabelsMap >>

\* The runtime hands a request for pod k to the worker; Reconcile gets the
\* pod. On an error it returns it; when the pod is not found it deletes the
\* gauge of the labels in LabelsMap; when the pod is found it deletes the
\* previous gauge and goes on to generate the new labels.
pod_Reconcile(k) ==
  /\ podWorker.pc = "idle"
  /\ \E fails \in BOOLEAN :
       /\ podWorker' =
            IF fails THEN [ IdlePodWorker EXCEPT !.pc = "done", !.req = k, !.err = TRUE ]
            ELSE IF ~pods[k].exists THEN [ IdlePodWorker EXCEPT !.pc = "done", !.req = k ]
            ELSE [ IdlePodWorker EXCEPT !.pc = "generateLabels", !.req = k, !.pod = pods[k] ]
       /\ podGaugeVec' =
            IF ~fails /\ k \in DOMAIN LabelsMap THEN Delete(podGaugeVec, LabelsMap[k])
            ELSE podGaugeVec
       /\ podHistory' =
            [ series |-> PodSeriesOf(podGaugeVec, k),
              tracked |-> IF k \in DOMAIN LabelsMap THEN LabelsMap[k] ELSE EmptyMap,
              entry |-> k \in DOMAIN LabelsMap,
              found |-> ~fails /\ pods[k].exists ]
  /\ UNCHANGED << cluster, nodeController, LabelsMap >>

\* generateLabels gets the node of the pod (an error, or the node), then
\* Reconcile looks up the gauge of the new labels, sets it to 1 and records
\* the labels.
pod_publish ==
  /\ podWorker.pc = "generateLabels"
  /\ \E fails \in BOOLEAN :
       LET name == podWorker.pod.nodeName
           node == IF fails \/ name \notin NodeNames THEN NoNode ELSE nodes[name]
           new == pod_generateLabels(podWorker.req, podWorker.pod, node)
       IN IF new.err \/ GetMetricWithFails(getLabelNames, new.labels)
          THEN /\ podWorker' = [podWorker EXCEPT !.pc = "done", !.node = node, !.err = TRUE]
               /\ UNCHANGED << podGaugeVec, LabelsMap >>
          ELSE /\ podWorker' = [podWorker EXCEPT !.pc = "done", !.node = node]
               /\ podGaugeVec' = Set(podGaugeVec, new.labels, 1000)
               /\ LabelsMap' = (podWorker.req :> new.labels) @@ LabelsMap
  /\ UNCHANGED << cluster, nodeController, podHistory >>

\* Reconcile of the pod controller returns to the runtime.
pod_Return ==
  /\ podWorker.pc = "done"
  /\ podWorker' = IdlePodWorker
  /\ podHistory' = NoPodHistory
  /\ UNCHANGED << cluster, nodeController, LabelsMap, podGaugeVec >>

\* The cluster changes.
Change ==
  \/ \E n \in NodeNames : \E o \in NodeChoices(n) : ChangeNode(n, o)
  \/ \E k \in PodKeys : \E o \in PodChoices(k) : ChangePod(k, o)

\* The node controller takes a step.
NodeStep ==
  \/ \E w \in Workers, n \in NodeNames : Reconcile(w, n)
  \/ \E w \in Workers : deleteGauges(w)
  \/ \E w \in Workers : Get(w)
  \/ \E w \in Workers : updateGaugesListFails(w)
  \/ \E w \in Workers : updateGauges(w)
  \/ \E w \in Workers : Return(w)

\* The pod controller takes a step.
PodStep ==
  \/ \E k \in PodKeys : pod_Reconcile(k)
  \/ pod_publish
  \/ pod_Return

\* The node controller with one worker, in a changing cluster.
Next == Change \/ NodeStep

Spec == Init /\ [][Next]_vars

\* The pod controller, in a changing cluster.
NextPod == Change \/ PodStep

SpecPod == Init /\ [][NextPod]_vars

\* Both controllers. They share no variable and only read the cluster, so
\* their steps commute; a step of one is taken while the other is idle.
NextBoth ==
  \/ Change
  \/ NodeStep /\ podWorker.pc = "idle"
  \/ PodStep /\ \A w \in Workers : worker[w].pc = "idle"

InitBoth == InitCluster /\ InitControllers /\ budget = MaxChanges - 1 /\ maxConcurrentReconciles = 1

SpecBoth == InitBoth /\ [][NextBoth]_vars

\* The node controller with two workers.
InitConc == InitCluster /\ InitControllers /\ budget = MaxChanges - 1 /\ maxConcurrentReconciles = 2

SpecConc == InitConc /\ [][Next \/ \E v, w \in Workers : concurrentMapWrites(v, w)]_vars

\* ------------------------------------------------------------------------
\* Properties
\* ------------------------------------------------------------------------
\* Worker w has returned from Reconcile, or is about to.
Done(w) == worker[w].pc = "done"

\* The reconciliation of worker w returned nil after fetching the node.
Republished(w) == Done(w) /\ history[w].found /\ ~worker[w].err

\* The reconciliation of worker w returned nil after not finding the node.
ObservedDeleted(w) == Done(w) /\ ~history[w].found /\ ~worker[w].err

\* The labels a worker has recorded for a node, as a set.
TrackedSet(map, n) == IF n \in DOMAIN map THEN Range(map[n]) ELSE {}

\* C1. No leakage: once a node is deleted and a reconciliation of its key
\* has fetched it and not found it, none of the six gauge vectors holds a
\* series whose node_name is that node, for as long as the node stays away.
C1_NoLeakage ==
  \A n \in NodeNames :
    (\/ \E w \in Workers : ObservedDeleted(w) /\ worker[w].req = n
     \/ last[n].stable /\ last[n].notFound)
    => \A g \in GaugeVecs : \A l \in DOMAIN gaugeVec[g] : l[nodeName] # Str(n)

\* A reconciliation has removed the series of a deleted node.
C1_Witness ==
  \E w \in Workers :
    /\ ObservedDeleted(w)
    /\ ~nodes[worker[w].req].exists
    /\ \A g \in GaugeVecs \ { daemonLimitsGaugeVec } : DOMAIN history[w].series[g] # {}

\* C2. No partial publish on failure: when a node reconciliation returns an
\* error, the node's series in the six gauge vectors and its labels in
\* LabelSliceMap are what they were when the reconciliation started.
C2_FailureLeavesStateUntouched ==
  \A w \in Workers :
    (Done(w) /\ worker[w].err)
    => /\ AllSeriesOf(gaugeVec, worker[w].req) = history[w].series
       /\ TrackedSet(LabelSliceMap, worker[w].req) = Range(history[w].tracked)

\* The nodes the cluster holds.
LiveNodes == { n \in NodeNames : nodes[n].exists }

\* C3. Tracker and registry agree: in every state, the series of each gauge
\* vector are exactly the labels the tracker records, over the entities it
\* holds an entry for: no series without a record, no record without a series.
C3_TrackerEqualsRegistry ==
  /\ \A g \in GaugeVecs :
       DOMAIN gaugeVec[g]
         = UNION { TrackedSet(LabelSliceMap, n) : n \in DOMAIN LabelSliceMap }
  /\ DOMAIN podGaugeVec = { LabelsMap[k] : k \in DOMAIN LabelsMap }

\* C3, amended. In every state, every series of a gauge vector is recorded
\* by the tracker under the key of its entity: a series of a node gauge
\* vector is in the node's slice of LabelSliceMap, a series of the pod gauge
\* vector is the pod's labels in LabelsMap.
C3_SeriesAreTracked ==
  /\ \A g \in GaugeVecs : \A l \in DOMAIN gaugeVec[g] :
       \E n \in NodeNames : l[nodeName] = Str(n) /\ l \in TrackedSet(LabelSliceMap, n)
  /\ \A l \in DOMAIN podGaugeVec :
       \E k \in DOMAIN LabelsMap :
         l = LabelsMap[k] /\ l[podName] = Str(k.name) /\ l[podNameSpace] = Str(k.namespace)

\* Both controllers have published, and the tracker records a label of a
\* live node that a gauge vector does not hold.
C3_Witness ==
  /\ DOMAIN podGaugeVec # {}
  /\ \E n \in LiveNodes :
       /\ DOMAIN SeriesOf(gaugeVec[allocatableGaugeVec], n) # {}
       /\ TrackedSet(LabelSliceMap, n) \ DOMAIN gaugeVec[daemonLimitsGaugeVec] # {}
       /\ \A w \in Workers : worker[w].pc = "idle"

\* The node labels of a series: every label but resource_type.
NodeLabelsOf(l) == [x \in DOMAIN l \ { resourceType } |-> l[x]]

\* C4. Rename consistency: after a reconciliation that fetched the node and
\* returned nil, every series of the node in every gauge vector carries the
\* label values of the node as fetched; no series with an older value of
\* provisioner, zone or another node label is left.
C4_RenameConsistency ==
  \A w \in Workers :
    Republished(w)
    => \A g \in GaugeVecs : \A l \in DOMAIN SeriesOf(gaugeVec[g], worker[w].req) :
         NodeLabelsOf(l) = NodeLabelsOf(generateLabels(worker[w].node, l[resourceType]))

\* A node was published under one provisioner and zone, and has now been
\* republished under another.
C4_Witness ==
  \E w \in Workers :
    /\ Republished(w)
    /\ DOMAIN SeriesOf(gaugeVec[allocatableGaugeVec], worker[w].req) # {}
    /\ \E old \in DOMAIN history[w].series[allocatableGaugeVec] :
         \A new \in DOMAIN SeriesOf(gaugeVec[allocatableGaugeVec], worker[w].req) :
           /\ old[nodeProvisioner] # new[nodeProvisioner]
           /\ old[nodeZone] # new[nodeZone]
           /\ ValidUTF8(old[nodeZone])

\* C5. Idempotence: a second reconciliation of a node, with the node and its
\* pods unchanged since the first one started and the first one having
\* returned nil, leaves the six gauge vectors with the series and values the
\* first one left.
C5_Idempotence ==
  \A w \in Workers :
    (Done(w) /\ ~history[w].changed
       /\ last[worker[w].req].stable /\ last[worker[w].req].ok)
    => AllSeriesOf(gaugeVec, worker[w].req) = history[w].series

\* The labels insertGaugeValues gives a resource name of a node.
LabelsFor(node, resourceName) == generateLabels(node, ResourceTypeName(resourceName))

\* C6. Exact republish: after a reconciliation that fetched the node and
\* returned nil, each gauge vector holds for the node one series per entry
\* of its resource list, with the entry's value, and no other; the labels
\* recorded for the node are those of the series just published.
C6_ExactRepublish ==
  \A w \in Workers :
    Republished(w)
    => LET n == worker[w].req
           node == worker[w].node
           lists == history[w].lists
       IN /\ \A g \in GaugeVecs :
               LET series == SeriesOf(gaugeVec[g], n)
               IN /\ DOMAIN series = { LabelsFor(node, r) : r \in DOMAIN lists[g] }
                  /\ Cardinality(DOMAIN series) = Cardinality(DOMAIN lists[g])
                  /\ \A r \in DOMAIN lists[g] :
                       series[LabelsFor(node, r)] = GaugeValue(r, lists[g][r])
          /\ TrackedSet(LabelSliceMap, n)
               = UNION { DOMAIN SeriesOf(gaugeVec[g], n) : g \in GaugeVecs }

\* C7. Delete before publish: once a reconciliation has fetched its entity
\* and until it upserts its first series, no label that was recorded for
\* the entity when the reconciliation started has a series in any gauge
\* vector; the upserts of updateGauges and of the pod's Reconcile are made
\* from such a state.
C7_DeleteBeforePublish ==
  /\ \A w \in Workers :
       worker[w].pc \in { "get", "updateGauges" }
       => \A g \in GaugeVecs : Range(history[w].tracked) \cap DOMAIN gaugeVec[g] = {}
  /\ (podWorker.pc = "generateLabels" /\ podHistory.entry)
       => podHistory.tracked \notin DOMAIN podGaugeVec

\* A node that had series is about to be published again, its recorded
\* labels deleted, while the pod gauge vector holds a series.
C7_Witness ==
  \E w \in Workers :
    /\ worker[w].pc = "updateGauges"
    /\ DOMAIN history[w].series[allocatableGaugeVec] # {}
    /\ Range(history[w].tracked) # {}
    /\ DOMAIN podGaugeVec # {}

\* C8. Serialized access: no two workers are at the same time between the
\* read of LabelSliceMap in deleteGauges and its write.
C8_MutualExclusion ==
  \A v, w \in Workers :
    (worker[v].pc = "deleteGauges" /\ worker[w].pc = "deleteGauges") => v = w

\* C9. No swallowed publish error: a node reconciliation in which
\* insertGaugeValues failed for a gauge vector returns an error.
C9_PublishErrorIsReturned ==
  \A w \in Workers : (Done(w) /\ history[w].failed # {}) => worker[w].err

\* C10. A pod reconciliation that returns an error leaves the pod's series
\* in the pod gauge vector and its labels in LabelsMap as they were when it
\* started.
C10_PodErrorLeavesStateUntouched ==
  (podWorker.pc = "done" /\ podWorker.err)
  => /\ PodSeriesOf(podGaugeVec, podWorker.req) = podHistory.series
     /\ (podWorker.req \in DOMAIN LabelsMap) = podHistory.entry
     /\ podHistory.entry => LabelsMap[podWorker.req] = podHistory.tracked

\* C11. Tracking entry removed on deletion: when a reconciliation has
\* fetched its entity and not found it, the entity has no series in a gauge
\* vector and the tracker holds no labels under its key: the node's slice
\* in LabelSliceMap is empty or absent, the pod has no entry in LabelsMap.
C11_EntryRemovedOnDeletion ==
  /\ \A w \in Workers :
       ObservedDeleted(w)
       => /\ TrackedSet(LabelSliceMap, worker[w].req) = {}
          /\ \A g \in GaugeVecs : DOMAIN SeriesOf(gaugeVec[g], worker[w].req) = {}
  /\ (podWorker.pc = "done" /\ ~podHistory.found /\ ~podWorker.err)
       => /\ DOMAIN PodSeriesOf(podGaugeVec, podWorker.req) = {}
          /\ podWorker.req \notin DOMAIN LabelsMap

\* ------------------------------------------------------------------------
\* The node controller over the pod lists and nodes of the aggregation
\* ------------------------------------------------------------------------
AggPod(phase, owners, containers, hasOverhead, overhead) ==
  [ NoPod EXCEPT !.exists = TRUE, !.nodeName = "n1", !.phase = phase,
      !.ownerReferences = owners, !.containers = containers,
      !.hasOverhead = hasOverhead, !.overhead = overhead ]

\* The pods KubeClient.List may return for n1: regular and daemon pods,
\* running and terminal, with and without limits, a limit of zero, several
\* containers and a pod overhead.
AggPodObjects ==
  { AggPod("Running", << >>,
           << [requests |-> (ResourceCPU :> 500), limits |-> (ResourceCPU :> 1000)] >>,
           FALSE, EmptyMap),
    AggPod("Running", << DaemonSetOwner >>,
           << [requests |-> (ResourceCPU :> 100), limits |-> EmptyMap] >>,
           FALSE, EmptyMap),
    AggPod("Running", << >>,
           << [requests |-> (ResourceCPU :> 200), limits |-> EmptyMap] >>,
           TRUE, (ResourceCPU :> 100)),
    AggPod("Running", << >>,
           << [requests |-> (ResourceCPU :> 300), limits |-> (ResourceCPU :> 0)] >>,
           TRUE, (ResourceCPU :> 100)),
    AggPod("Succeeded", << >>,
           << [requests |-> (ResourceCPU :> 700), limits |-> (ResourceCPU :> 900)] >>,
           TRUE, (ResourceCPU :> 50)),
    AggPod("Failed", << DaemonSetOwner >>,
           << [requests |-> (ResourceCPU :> 50), limits |-> (ResourceCPU :> 60)] >>,
           FALSE, EmptyMap),
    AggPod("Running", << >>,
           << [requests |-> (ResourceCPU :> 100), limits |-> (ResourceCPU :> 400)],
              [requests |-> (ResourceMemory :> 2000), limits |-> EmptyMap] >>,
           TRUE, (ResourceCPU :> 100) @@ (ResourceMemory :> 1000)),
    AggPod("Running", << DaemonSetOwner >>,
           << [requests |-> (ResourceCPU :> 100), limits |-> (ResourceCPU :> 300)] >>,
           TRUE, (ResourceCPU :> 20)) }

\* The nodes of the aggregation: capacity above allocatable, capacity below
\* allocatable, a resource that is allocatable and missing from capacity,
\* and capacity equal to allocatable.
AggNodeObjects ==
  { FirstNodeObject,
    NodeObject(LabelsOf("pA", "z1"), (ResourceCPU :> 1000), (ResourceCPU :> 2000)),
    NodeObject(LabelsOf("pA", "z1"), (ResourceCPU :> 4000),
               (ResourceCPU :> 3800) @@ (ResourceMemory :> 2000)),
    NodeObject(LabelsOf("pA", "z1"), (ResourceCPU :> 4000), (ResourceCPU :> 4000)) }

\* A cluster that does not change: n1 with up to two pods.
InitAgg ==
  /\ \E o \in AggNodeObjects : nodes = [n \in NodeNames |-> IF n = "n1" THEN NamedNode(o, n) ELSE NoNode]
  /\ pods \in [PodKeys -> AggPodObjects \cup { NoPod }]
  /\ InitControllers
  /\ budget = 0
  /\ maxConcurrentReconciles = 1

SpecAgg == InitAgg /\ [][NodeStep]_vars

\* The pods of a node in the order of keys, as KubeClient.List returns them.
PodList(keys) == [i \in DOMAIN keys |-> pods[keys[i]]]

\* The regular pods and the daemon pods of a list.
Regular(podlist) == SelectSeq(podlist, LAMBDA p : ~IsOwnedByDaemonSet(p))
Daemon(podlist) == SelectSeq(podlist, LAMBDA p : IsOwnedByDaemonSet(p))

\* A list without its pods in a terminal phase.
NonTerminal(podlist) == SelectSeq(podlist, LAMBDA p : p.phase \notin { "Succeeded", "Failed" })

\* C12. Terminal exclusion: for every order of every pod list, the requests
\* and limits totals are those of the list without its Succeeded and Failed
\* pods, and a list of terminal pods only has empty totals; the totals a
\* reconciliation publishes are totals of the non-terminal pods.
C12_TerminalExclusion ==
  /\ \A keys \in Perms(PodsOn(pods, "n1")) :
       LET podlist == PodList(keys)
       IN /\ getPodsTotalRequestsAndLimits(podlist)
               = getPodsTotalRequestsAndLimits(NonTerminal(podlist))
          /\ Len(NonTerminal(podlist)) = 0
               => getPodsTotalRequestsAndLimits(podlist) = [ reqs |-> EmptyMap, limits |-> EmptyMap ]
  /\ \A w \in Workers :
       Republished(w)
       => \E keys \in Perms(PodsOn(pods, worker[w].req)) :
            LET live == NonTerminal(PodList(keys))
                lists == history[w].lists
            IN /\ lists[podRequestsGaugeVec] = getPodsTotalRequestsAndLimits(Regular(live)).reqs
               /\ lists[podLimitsGaugeVec] = getPodsTotalRequestsAndLimits(Regular(live)).limits
               /\ lists[daemonRequestsGaugeVec] = getPodsTotalRequestsAndLimits(Daemon(live)).reqs
               /\ lists[daemonLimitsGaugeVec] = getPodsTotalRequestsAndLimits(Daemon(live)).limits

\* A node has been published whose list holds a running regular pod and a
\* succeeded regular pod with requests, limits and overhead.
C12_Witness ==
  \E w \in Workers :
    /\ Republished(w)
    /\ \E k1, k2 \in PodsOn(pods, worker[w].req) :
         /\ pods[k1].phase = "Succeeded" /\ pods[k1].hasOverhead /\ ~IsOwnedByDaemonSet(pods[k1])
         /\ pods[k2].phase = "Running" /\ ~IsOwnedByDaemonSet(pods[k2])
    /\ DOMAIN history[w].lists[podRequestsGaugeVec] # {}

\* The quantity of a resource list under a name, absent counting as zero.
Qty(resourceList, n) == IF n \in DOMAIN resourceList THEN resourceList[n] ELSE 0

RECURSIVE SeqSum(_)
SeqSum(q) == IF Len(q) = 0 THEN 0 ELSE Head(q) + SeqSum(Tail(q))

\* The requests and the limits of the containers of a pod under a name.
ContainerRequests(pod, n) ==
  SeqSum([i \in DOMAIN pod.containers |-> Qty(pod.containers[i].requests, n)])

ContainerLimits(pod, n) ==
  SeqSum([i \in DOMAIN pod.containers |-> Qty(pod.containers[i].limits, n)])

ResourceNames == { ResourceCPU, ResourceMemory }

\* The pod lists of one partition that updateGauges may hand to
\* getPodsTotalRequestsAndLimits for n1.
Partitions ==
  UNION { { Regular(PodList(keys)), Daemon(PodList(keys)) } : keys \in Perms(PodsOn(pods, "n1")) }

\* C13. Overhead-to-limits rule: for every pod list of a partition and
\* every non-terminal pod with an overhead in it, the pod raises the
\* requests total by its container requests plus its overhead; the limits
\* total gains no name beyond those of the totals so far and of the pod's
\* container limits, and its value under a name is the total so far plus
\* the container limits, plus the overhead only where that sum is not zero.
C13_OverheadToLimits ==
  \A podlist \in Partitions : \A i \in DOMAIN podlist :
    LET pod == podlist[i]
        before == getPodsTotalRequestsAndLimits(SubSeq(podlist, 1, i - 1))
        after == getPodsTotalRequestsAndLimits(SubSeq(podlist, 1, i))
    IN (pod.hasOverhead /\ pod.phase \notin { "Succeeded", "Failed" })
       => /\ \A n \in ResourceNames :
               Qty(after.reqs, n)
                 = Qty(before.reqs, n) + ContainerRequests(pod, n) + Qty(pod.overhead, n)
          /\ DOMAIN after.limits = DOMAIN before.limits \cup UNION { DOMAIN pod.containers[c].limits : c \in DOMAIN pod.containers }
          /\ \A n \in DOMAIN after.limits :
               LET limit == Qty(before.limits, n) + ContainerLimits(pod, n)
               IN after.limits[n]
                    = IF limit # 0 THEN limit + Qty(pod.overhead, n) ELSE limit

\* A node has been published with a pod whose overhead of cpu went to a cpu
\* limit that was there, and whose overhead of memory went to the requests
\* and gave no memory limit.
C13_Witness ==
  \E w \in Workers :
    /\ Republished(w)
    /\ \E k \in PodsOn(pods, worker[w].req) :
         /\ pods[k].hasOverhead /\ pods[k].phase = "Running"
         /\ ContainerLimits(pods[k], ResourceCPU) # 0
         /\ Qty(pods[k].overhead, ResourceMemory) # 0
         /\ ContainerLimits(pods[k], ResourceMemory) = 0
    /\ Qty(history[w].lists[podRequestsGaugeVec], ResourceMemory) = 3000
    /\ Qty(history[w].lists[podLimitsGaugeVec], ResourceCPU) = 500
    /\ ResourceMemory \notin DOMAIN history[w].lists[podLimitsGaugeVec]

\* C14. Overhead floor: no series of the system overhead gauge vector has a
\* negative value, whatever the capacity and the allocatable of the node.
C14_OverheadNeverNegative ==
  \A l \in DOMAIN gaugeVec[overheadGaugeVec] : gaugeVec[overheadGaugeVec][l] >= 0

\* The sum of the requests of a pod list under a name.
RequestSum(podlist, n) ==
  SeqSum([i \in DOMAIN podlist |->
            LET pod == podlist[i]
            IN IF pod.phase \in { "Succeeded", "Failed" } THEN 0
               ELSE ContainerRequests(pod, n)
                      + (IF pod.hasOverhead THEN Qty(pod.overhead, n) ELSE 0)])

\* C15. Request aggregation: for every order of every pod list, the requests
\* total of the regular pods and that of the daemon pods are, under each
\* resource name, the sum of the container requests and the overhead of the
\* non-terminal pods of the partition; two orders of a list give the same
\* totals, and the totals published are those of every order.
C15_RequestsAreSums ==
  /\ \A podlist \in Partitions : \A n \in ResourceNames :
       Qty(getPodsTotalRequestsAndLimits(podlist).reqs, n) = RequestSum(podlist, n)
  /\ \A k1, k2 \in Perms(PodsOn(pods, "n1")) :
       /\ getPodsTotalRequestsAndLimits(Regular(PodList(k1))).reqs
            = getPodsTotalRequestsAndLimits(Regular(PodList(k2))).reqs
       /\ getPodsTotalRequestsAndLimits(Daemon(PodList(k1))).reqs
            = getPodsTotalRequestsAndLimits(Daemon(PodList(k2))).reqs
  /\ \A w \in Workers :
       Republished(w)
       => \A keys \in Perms(PodsOn(pods, worker[w].req)) :
            /\ history[w].lists[podRequestsGaugeVec]
                 = getPodsTotalRequestsAndLimits(Regular(PodList(keys))).reqs
            /\ history[w].lists[daemonRequestsGaugeVec]
                 = getPodsTotalRequestsAndLimits(Daemon(PodList(keys))).reqs

\* A regular pod that requests cpu=500m and a daemon pod that requests
\* cpu=100m have been published as pod requests 0.5 and daemon requests 0.1.
C15_Witness ==
  \E w \in Workers :
    /\ Republished(w)
    /\ Cardinality(PodsOn(pods, worker[w].req)) = 2
    /\ history[w].lists[podRequestsGaugeVec] = (ResourceCPU :> 500)
    /\ history[w].lists[daemonRequestsGaugeVec] = (ResourceCPU :> 100)
    /\ \E l \in DOMAIN gaugeVec[podRequestsGaugeVec] : gaugeVec[podRequestsGaugeVec][l] = 500
    /\ \E l \in DOMAIN gaugeVec[daemonRequestsGaugeVec] : gaugeVec[daemonRequestsGaugeVec][l] = 100

\* C16. Limit aggregation is order-independent: the limits totals a
\* reconciliation publishes for the regular pods and for the daemon pods are
\* the totals getPodsTotalRequestsAndLimits gives for every order of the
\* pod list.
C16_LimitsOrderIndependent ==
  \A w \in Workers :
    Republished(w)
    => \A keys \in Perms(PodsOn(pods, worker[w].req)) :
         /\ history[w].lists[podLimitsGaugeVec]
              = getPodsTotalRequestsAndLimits(Regular(PodList(keys))).limits
         /\ history[w].lists[daemonLimitsGaugeVec]
              = getPodsTotalRequestsAndLimits(Daemon(PodList(keys))).limits

\* ------------------------------------------------------------------------
\* The map functions of Register (controller.go:162-193)
\* ------------------------------------------------------------------------
ProvisionerNames == { "pA", "pB", "pC" }

\* KubeClient.List of the nodes with MatchingLabels{ProvisionerNameLabelKey: name}.
MatchingNodes(name) ==
  { n \in NodeNames :
      /\ nodes[n].exists
      /\ ProvisionerNameLabelKey \in DOMAIN nodes[n].labels
      /\ nodes[n].labels[ProvisionerNameLabelKey] = name }

\* The map function of the Provisioner watch: the nodes of the provisioner
\* are listed, in some order, and a request is returned for each; when the
\* list fails the error is logged and no request is returned.
mapProvisioner(name) ==
  /\ \E fails \in BOOLEAN : \E listed \in Perms(MatchingNodes(name)) :
       enqueued' = [ NoRequests EXCEPT !.event = "provisioner", !.provisioner = name,
                       !.failed = fails,
                       !.requests = IF fails THEN << >> ELSE listed ]
  /\ UNCHANGED << nodes, pods, budget, maxConcurrentReconciles, volumeTopology, liveness,
                  nodeController, podController >>

\* The map function of the Pod watch: a request for the node of the pod,
\* when the pod has one.
mapPod(o) ==
  /\ enqueued' = [ NoRequests EXCEPT !.event = "pod", !.pod = o,
                     !.requests = IF o.nodeName # "" THEN << o.nodeName >> ELSE << >> ]
  /\ UNCHANGED << nodes, pods, budget, maxConcurrentReconciles, volumeTopology, liveness,
                  nodeController, podController >>

\* The pods of the events: the pods of the cluster, and p1 before it is
\* assigned to a node.
EventPods ==
  UNION { PodObjects(k) : k \in PodKeys }
    \cup { [ FirstPodObject(k) EXCEPT !.nodeName = "" ] : k \in PodKeys }

\* A cluster that does not change, with every choice of its two nodes.
InitMap ==
  /\ \E o1 \in NodeChoices("n1") : \E o2 \in NodeChoices("n1") :
       nodes = [n \in NodeNames |->
                  IF n = "n1" THEN o1 ELSE IF o2.exists THEN NamedNode(o2, n) ELSE o2]
  /\ pods = [k \in PodKeys |-> FirstPodObject(k)]
  /\ InitControllers
  /\ budget = 0
  /\ maxConcurrentReconciles = 1

SpecMap ==
  InitMap /\ [][\/ \E name \in ProvisionerNames : mapProvisioner(name)
               \/ \E o \in EventPods : mapPod(o)]_vars

\* C17. Dependency mapping: a Provisioner event is mapped to one request for
\* each node labelled with the name of the provisioner and to no other
\* request; a Pod event is mapped to one request for the node of the pod,
\* and to none when the pod has no node.
C17_DependencyMapping ==
  /\ enqueued.event = "provisioner"
       => \A n \in NodeNames :
            Cardinality({ i \in DOMAIN enqueued.requests : enqueued.requests[i] = n })
              = IF n \in MatchingNodes(enqueued.provisioner) THEN 1 ELSE 0
  /\ enqueued.event = "pod"
       => /\ Len(enqueued.requests) = IF enqueued.pod.nodeName # "" THEN 1 ELSE 0
          /\ enqueued.pod.nodeName # "" => enqueued.requests[1] = enqueued.pod.nodeName

\* ------------------------------------------------------------------------
\* Properties of the pod controller
\* ------------------------------------------------------------------------
\* The pod worker has fetched its pod and comes back from generateLabels
\* and the gauge.
PodProjected == podWorker.pc = "done" /\ podHistory.found

\* The node label each host label is read from.
HostLabelKey ==
  (podProvisioner :> ProvisionerNameLabelKey) @@ (podHostZone :> LabelTopologyZone)
  @@ (podHostArchitecture :> LabelArchStable) @@ (podHostCapacityType :> LabelCapacityType)
  @@ (podHostInstanceType :> LabelInstanceTypeStable)

\* C18. Pod projection without the host node: when generateLabels cannot
\* get the node of the pod, the reconciliation returns nil and the pod's
\* series has empty zone, arch, capacity_type and instance_type and, as
\* provisioner, the provisioner name of the pod's node selector, or empty
\* when the selector has none; when the node is fetched and the
\* reconciliation returns nil, the five labels are the node's labels.
C18_PodProjectionDegrades ==
  PodProjected
  => LET k == podWorker.req
         pod == podWorker.pod
         node == podWorker.node
     IN IF ~node.exists
        THEN /\ ~podWorker.err
             /\ k \in DOMAIN LabelsMap /\ LabelsMap[k] \in DOMAIN podGaugeVec
             /\ \A x \in DOMAIN HostLabelKey \ { podProvisioner } : LabelsMap[k][x] = << "" >>
             /\ LabelsMap[k][podProvisioner]
                  = IF ProvisionerNameLabelKey \in DOMAIN pod.nodeSelector
                    THEN << pod.nodeSelector[ProvisionerNameLabelKey] >> ELSE << "" >>
        ELSE ~podWorker.err
             => /\ k \in DOMAIN LabelsMap /\ LabelsMap[k] \in DOMAIN podGaugeVec
                /\ \A x \in DOMAIN HostLabelKey :
                     LabelsMap[k][x]
                       = << IF HostLabelKey[x] \in DOMAIN node.labels
                            THEN node.labels[HostLabelKey[x]] ELSE "" >>

\* A pod that selects provisioner pA has been published while its node,
\* which is in the cluster, could not be fetched.
C18_Witness ==
  /\ PodProjected
  /\ ~podWorker.node.exists
  /\ ProvisionerNameLabelKey \in DOMAIN podWorker.pod.nodeSelector
  /\ nodes[podWorker.pod.nodeName].exists
  /\ LabelsMap[podWorker.req][podProvisioner] = << "pA" >>

\* C19. Single pod series: in every state a pod key has at most one series
\* in the pod gauge vector; when a reconciliation has fetched the pod and
\* returns nil, the key has one series, of value 1, under the labels
\* generateLabels gives the pod as fetched, and LabelsMap holds these labels.
C19_SinglePodSeries ==
  /\ \A k \in PodKeys : Cardinality(DOMAIN PodSeriesOf(podGaugeVec, k)) <= 1
  /\ (PodProjected /\ ~podWorker.err)
       => LET k == podWorker.req
              new == pod_generateLabels(k, podWorker.pod, podWorker.node).labels
          IN /\ DOMAIN PodSeriesOf(podGaugeVec, k) = { new }
             /\ podGaugeVec[new] = 1000
             /\ k \in DOMAIN LabelsMap /\ LabelsMap[k] = new

\* A pod that had a series under other labels has been published again.
C19_Witness ==
  /\ PodProjected /\ ~podWorker.err
  /\ podHistory.entry
  /\ DOMAIN podHistory.series # {}
  /\ podHistory.tracked # LabelsMap[podWorker.req]

\* C20. Uniform label schema: the labels of every series of a node gauge
\* vector and every labels recorded in LabelSliceMap carry the eight label
\* names of labelNames, no more and no fewer; the labels of every
\* series of the pod gauge vector and every labels in LabelsMap carry the
\* eleven label names of getLabelNames; so do the labels generateLabels
\* gives for every node and pod of the cluster.
C20_UniformLabelSchema ==
  /\ Cardinality(Range(labelNames)) = 8 /\ Cardinality(Range(getLabelNames)) = 11
  /\ \A g \in GaugeVecs : \A l \in DOMAIN gaugeVec[g] : DOMAIN l = Range(labelNames)
  /\ \A n \in DOMAIN LabelSliceMap : \A l \in Range(LabelSliceMap[n]) :
       DOMAIN l = Range(labelNames)
  /\ \A l \in DOMAIN podGaugeVec : DOMAIN l = Range(getLabelNames)
  /\ \A k \in DOMAIN LabelsMap :
       DOMAIN LabelsMap[k] = Range(getLabelNames)
  /\ \A n \in NodeNames : \A r \in ResourceNames :
       DOMAIN generateLabels(nodes[n], r) = Range(labelNames)
  /\ \A k \in PodKeys : \A node \in { nodes[n] : n \in NodeNames } \cup { NoNode } :
       DOMAIN pod_generateLabels(k, pods[k], node).labels = Range(getLabelNames)

\* A node without labels and a pod whose node could not be fetched are both
\* published.
C20_Witness ==
  /\ \E n \in NodeNames :
       /\ nodes[n].exists /\ DOMAIN nodes[n].labels = {}
       /\ DOMAIN SeriesOf(gaugeVec[allocatableGaugeVec], n) # {}
       /\ \A w \in Workers : worker[w].pc = "idle"
  /\ \E l \in DOMAIN podGaugeVec : l[podHostZone] = << "" >>

\* ------------------------------------------------------------------------
\* The node controller over the capacities and allocatables of a node
\* ------------------------------------------------------------------------
\* A cluster that does not change: n1 with its two pods or without pods.
InitOverhead ==
  /\ \E o \in AggNodeObjects
              \cup { NodeObject(LabelsOf("pA", "z1"),
                                (ResourceCPU :> 4000) @@ (ResourceMemory :> 8000), EmptyMap),
                     NodeObject(LabelsOf("pA", "z1"), EmptyMap, EmptyMap) } :
       nodes = [n \in NodeNames |-> IF n = "n1" THEN NamedNode(o, n) ELSE NoNode]
  /\ \E some \in BOOLEAN : pods = [k \in PodKeys |-> IF some THEN FirstPodObject(k) ELSE NoPod]
  /\ InitControllers
  /\ budget = 0
  /\ maxConcurrentReconciles = 1

SpecOverhead == InitOverhead /\ [][NodeStep]_vars

\* C21. System overhead key set: the overhead a reconciliation computes for
\* a node has an entry for exactly the resource names of the node's
\* allocatable, each capacity minus allocatable (a name missing from
\* capacity counts as zero), and each entry is published as a series of the
\* overhead gauge vector; for a node without allocatable the overhead is
\* empty and the node has no series in the overhead gauge vector.
C21_OverheadKeySet ==
  \A w \in Workers :
    Republished(w)
    => LET node == worker[w].node
           overhead == history[w].lists[overheadGaugeVec]
           series == SeriesOf(gaugeVec[overheadGaugeVec], worker[w].req)
       IN /\ overhead = getSystemOverhead(node)
          /\ DOMAIN overhead = DOMAIN node.allocatable
          /\ \A n \in DOMAIN overhead : overhead[n] = Qty(node.capacity, n) - node.allocatable[n]
          /\ DOMAIN series = { LabelsFor(node, n) : n \in DOMAIN node.allocatable }
          /\ \A n \in DOMAIN node.allocatable :
               series[LabelsFor(node, n)] = GaugeValue(n, Qty(node.capacity, n) - node.allocatable[n])
          /\ DOMAIN node.allocatable = {} => overhead = EmptyMap /\ DOMAIN series = {}

\* A node has been published whose allocatable holds a resource name that
\* its capacity does not hold, with one overhead series for each name.
C21_Witness ==
  \E w \in Workers :
    /\ Republished(w)
    /\ DOMAIN worker[w].node.allocatable \ DOMAIN worker[w].node.capacity # {}
    /\ Cardinality(DOMAIN SeriesOf(gaugeVec[overheadGaugeVec], worker[w].req)) = 2

\* ------------------------------------------------------------------------
\* Reconciliations of different nodes at the same time
\* ------------------------------------------------------------------------
\* C22. Cross-entity independence: the reconciliation of a node is never
\* stopped by the reconciliation of another node, and a node whose
\* reconciliation has returned, that has not changed since and that no
\* worker reconciles, has in every gauge vector the series that
\* reconciliation left, and in LabelSliceMap the slice it left, whatever the
\* reconciliations of the other nodes do in the meantime.
C22_CrossEntityIndependence ==
  /\ \A w \in Workers : worker[w].pc # "fatal"
  /\ \A n \in NodeNames :
       (last[n].stable
          /\ \A w \in Workers : worker[w].pc \notin { "idle", "fatal" } => worker[w].req # n)
       => /\ AllSeriesOf(gaugeVec, n) = last[n].series
          /\ last[n].tracked = (IF n \in DOMAIN LabelSliceMap THEN LabelSliceMap[n] ELSE << >>)

\* C23. Tracking entries exist only after success: a reconciliation that
\* started with no entry for its node in LabelSliceMap has created none
\* unless it has fetched the node and published it; a reconciliation that
\* did not find its node leaves the map without an entry for it.
C23_EntryOnlyAfterSuccess ==
  \A w \in Workers :
    (worker[w].pc # "idle" /\ ~history[w].entry /\ ~Republished(w))
    => worker[w].req \notin DOMAIN LabelSliceMap

\* C24. Normalized resource names stay distinct keys: after a reconciliation
\* in which no insertGaugeValues failed, two different resource names of a
\* resource list published for the node have different labels, and each has
\* in the gauge vector a series of its own with its own value.
C24_DistinctResourceNames ==
  \A w \in Workers :
    (Republished(w) /\ history[w].failed = {})
    => LET node == worker[w].node
           lists == history[w].lists
       IN \A g \in GaugeVecs :
            /\ \A r1, r2 \in DOMAIN lists[g] :
                 r1 # r2 => LabelsFor(node, r1) # LabelsFor(node, r2)
            /\ \A r \in DOMAIN lists[g] :
                 /\ LabelsFor(node, r) \in DOMAIN gaugeVec[g]
                 /\ gaugeVec[g][LabelsFor(node, r)] = GaugeValue(r, lists[g][r])

\* ------------------------------------------------------------------------
\* Volume topology (selection/volumeTopology.go:23-114)
\* ------------------------------------------------------------------------
NodeSelectorRequirement(key, operator, values) ==
  [ key |-> key, operator |-> operator, values |-> values ]

\* The persistent volume claims of the pod's namespace: bound to a volume
\* (VolumeName), or waiting with a storage class, or with neither.
PersistentVolumeClaims ==
  ("bound" :> [ volumeName |-> "pv-zone", storageClassName |-> "sc-zone" ])
  @@ ("boundPlain" :> [ volumeName |-> "pv-plain", storageClassName |-> "" ])
  @@ ("boundNoTerms" :> [ volumeName |-> "pv-noterms", storageClassName |-> "" ])
  @@ ("boundNoRequired" :> [ volumeName |-> "pv-norequired", storageClassName |-> "" ])
  @@ ("boundLost" :> [ volumeName |-> "pv-gone", storageClassName |-> "" ])
  @@ ("pending" :> [ volumeName |-> "", storageClassName |-> "sc-zone" ])
  @@ ("pendingAny" :> [ volumeName |-> "", storageClassName |-> "sc-any" ])
  @@ ("unclassed" :> [ volumeName |-> "", storageClassName |-> "" ])

\* The persistent volumes: with a required node affinity of two terms, with
\* no node affinity, with a node affinity without required terms, and with a
\* required node selector of no term.
PersistentVolumes ==
  ("pv-zone" :>
     [ nodeAffinity |-> TRUE, required |-> TRUE,
       nodeSelectorTerms |->
         << << NodeSelectorRequirement(LabelTopologyZone, "In", << "z1" >>),
               NodeSelectorRequirement(LabelArchStable, "NotIn", << "arm64" >>) >>,
            << NodeSelectorRequirement(LabelTopologyZone, "In", << "z2" >>) >> >> ])
  @@ ("pv-plain" :> [ nodeAffinity |-> FALSE, required |-> FALSE, nodeSelectorTerms |-> << >> ])
  @@ ("pv-norequired" :> [ nodeAffinity |-> TRUE, required |-> FALSE, nodeSelectorTerms |-> << >> ])
  @@ ("pv-noterms" :> [ nodeAffinity |-> TRUE, required |-> TRUE, nodeSelectorTerms |-> << >> ])

\* The storage classes: AllowedTopologies of two terms, and of none. A term
\* is the sequence of its match label expressions.
StorageClasses ==
  ("sc-zone" :>
     << << [ key |-> LabelTopologyZone, values |-> << "z1", "z2" >> ] >>,
        << [ key |-> LabelTopologyZone, values |-> << "z3" >> ] >> >>)
  @@ ("sc-any" :> << >>)

\* A result of getRequirements.
Requirements(requirements) == [ requirements |-> requirements, err |-> FALSE ]

LookupError == [ requirements |-> << >>, err |-> TRUE ]

\* kubeClient.Get fails for an object that does not exist and for the
\* objects of failing.
GetFails(objects, name, failing) == name \notin DOMAIN objects \/ name \in failing

getStorageClassRequirements(pvc, failing) ==
  IF GetFails(StorageClasses, pvc.storageClassName, failing) THEN LookupError
  ELSE LET allowedTopologies == StorageClasses[pvc.storageClassName]
       IN IF Len(allowedTopologies) > 0
          THEN Requirements([ i \in DOMAIN allowedTopologies[1] |->
                 NodeSelectorRequirement(allowedTopologies[1][i].key, "In",
                                         allowedTopologies[1][i].values) ])
          ELSE Requirements(<< >>)

getPersistentVolumeRequirements(pvc, failing) ==
  IF GetFails(PersistentVolumes, pvc.volumeName, failing) THEN LookupError
  ELSE LET pv == PersistentVolumes[pvc.volumeName]
       IN IF ~pv.nodeAffinity THEN Requirements(<< >>)
          ELSE IF ~pv.required THEN Requirements(<< >>)
          ELSE IF Len(pv.nodeSelectorTerms) > 0 THEN Requirements(pv.nodeSelectorTerms[1])
          ELSE Requirements(<< >>)

getRequirements(volume, failing) ==
  IF ~volume.persistentVolumeClaim THEN Requirements(<< >>)
  ELSE IF GetFails(PersistentVolumeClaims, volume.claimName, failing) THEN LookupError
  ELSE LET pvc == PersistentVolumeClaims[volume.claimName]
       IN IF pvc.volumeName # "" THEN getPersistentVolumeRequirements(pvc, failing)
          ELSE IF pvc.storageClassName # "" THEN getStorageClassRequirements(pvc, failing)
          ELSE Requirements(<< >>)

\* The loop of Inject over the volumes of the pod, from volume i.
RECURSIVE volumeRequirements(_, _, _, _)
volumeRequirements(volumes, failing, i, requirements) ==
  IF i > Len(volumes) THEN Requirements(requirements)
  ELSE LET req == getRequirements(volumes[i], failing)
       IN IF req.err THEN LookupError
          ELSE volumeRequirements(volumes, failing, i + 1, requirements \o req.requirements)

\* Inject on a pod, with the objects whose Get fails: the pod it leaves, the
\* error it returns, and "panic" when it indexes a slice out of its range.
Inject(pod, failing) ==
  LET r == volumeRequirements(pod.volumes, failing, 1, << >>)
      withAffinity == [ pod EXCEPT !.affinity = TRUE, !.nodeAffinity = TRUE, !.required = TRUE ]
  IN IF r.err THEN [ pc |-> "returned", pod |-> pod, err |-> TRUE ]
     ELSE IF Len(r.requirements) = 0 THEN [ pc |-> "returned", pod |-> pod, err |-> FALSE ]
     ELSE IF Len(withAffinity.nodeSelectorTerms) = 0
     THEN [ pc |-> "panic", pod |-> withAffinity, err |-> FALSE ]
     ELSE [ pc |-> "returned",
            pod |-> [ withAffinity EXCEPT !.nodeSelectorTerms[1] = @ \o r.requirements ],
            err |-> FALSE ]

\* The volumes a pod of the model may have.
MaxVolumes == 2

\* The affinities a pod may have before Inject: none, an affinity without
\* node affinity, a node affinity without required terms, a required node
\* selector of no term, of one term and of two terms.
AffinityChoices ==
  { NoInjectPod,
    [ NoInjectPod EXCEPT !.affinity = TRUE ],
    [ NoInjectPod EXCEPT !.affinity = TRUE, !.nodeAffinity = TRUE ],
    [ NoInjectPod EXCEPT !.affinity = TRUE, !.nodeAffinity = TRUE, !.required = TRUE ],
    [ NoInjectPod EXCEPT !.affinity = TRUE, !.nodeAffinity = TRUE, !.required = TRUE,
        !.nodeSelectorTerms =
          << << NodeSelectorRequirement(LabelArchStable, "In", << "amd64" >>) >> >> ],
    [ NoInjectPod EXCEPT !.affinity = TRUE, !.nodeAffinity = TRUE, !.required = TRUE,
        !.nodeSelectorTerms =
          << << >>,
             << NodeSelectorRequirement(LabelCapacityType, "In", << "spot" >>) >> >> ] }

InjectPods ==
  { [ a EXCEPT !.volumes = v ] :
      a \in AffinityChoices,
      v \in UNION { [1..n -> { [ persistentVolumeClaim |-> FALSE, claimName |-> "" ] }
                                \cup { [ persistentVolumeClaim |-> TRUE, claimName |-> c ]
                                         : c \in DOMAIN PersistentVolumeClaims \cup { "missing" } }]
                       : n \in 0..MaxVolumes } }

\* A call of Inject, with the objects whose Get fails: none, or one of
\* them. Inject keeps nothing from one call to the next, so a behaviour
\* makes one call.
VolumeTopology_Inject(pod, failing) ==
  /\ volumeTopology.pc = "idle"
  /\ volumeTopology' =
       LET r == Inject(pod, failing)
       IN [ pc |-> r.pc, given |-> pod, failing |-> failing, pod |-> r.pod, err |-> r.err ]
  /\ UNCHANGED << nodes, pods, budget, maxConcurrentReconciles, enqueued, liveness,
                  nodeController, podController >>

InitSelection == InitCluster /\ InitControllers /\ budget = 0 /\ maxConcurrentReconciles = 1

SpecInject ==
  InitSelection
    /\ [][\E pod \in InjectPods :
             \E failing \in { {} } \cup { { x } : x \in DOMAIN PersistentVolumeClaims
                                                       \cup DOMAIN PersistentVolumes
                                                       \cup DOMAIN StorageClasses } :
               VolumeTopology_Inject(pod, failing)]_vars

\* C25. Volume-topology injection completes: a call of Inject never panics;
\* it returns the error of a failed lookup; without a failed lookup it
\* returns nil, leaves the pod as it was given when no requirement is
\* derived, and otherwise leaves a required node affinity whose first term
\* holds the match expressions the pod had there followed by the derived
\* requirements, the other terms being those given.
C25_InjectCompletes ==
  volumeTopology.pc # "idle"
  => LET given == volumeTopology.given
         pod == volumeTopology.pod
         derived == volumeRequirements(given.volumes, volumeTopology.failing, 1, << >>)
         LookupFailed == derived.err
         Derived == derived.requirements
     IN /\ volumeTopology.pc # "panic"
        /\ volumeTopology.err = LookupFailed
        /\ (LookupFailed \/ Len(Derived) = 0) => pod = given
        /\ (~LookupFailed /\ Len(Derived) > 0)
             => /\ pod.affinity /\ pod.nodeAffinity /\ pod.required
                /\ pod.volumes = given.volumes
                /\ Len(pod.nodeSelectorTerms) = IF Len(given.nodeSelectorTerms) = 0 THEN 1
                                                ELSE Len(given.nodeSelectorTerms)
                /\ pod.nodeSelectorTerms[1]
                     = (IF Len(given.nodeSelectorTerms) = 0 THEN << >> ELSE given.nodeSelectorTerms[1])
                         \o Derived
                /\ \A i \in 2..Len(given.nodeSelectorTerms) :
                     pod.nodeSelectorTerms[i] = given.nodeSelectorTerms[i]

\* ------------------------------------------------------------------------
\* Liveness (selection/volumeTopology.go:146-172)
\* ------------------------------------------------------------------------
\* Durations are in minutes.
LivenessTimeout == 15

NodeCondition(type, reason) == [ type |-> type, reason |-> reason ]

\* node.GetCondition: the first condition of the type, or the zero condition.
RECURSIVE GetCondition(_, _)
GetCondition(conditions, match) ==
  IF Len(conditions) = 0 THEN NodeCondition("", "")
  ELSE IF Head(conditions).type = match THEN Head(conditions)
  ELSE GetCondition(Tail(conditions), match)

\* A Liveness.Reconcile that lets a node live until it is older than the timeout.
ReconcileLivenessInclusive(timeSinceCreation, conditions, deleteFails) ==
  IF timeSinceCreation <= LivenessTimeout
  THEN [ deleteCalled |-> FALSE, deleteFailed |-> FALSE,
         requeueAfter |-> LivenessTimeout - timeSinceCreation, err |-> FALSE ]
  ELSE LET condition == GetCondition(conditions, "Ready")
       IN IF condition.reason # "" /\ condition.reason # "NodeStatusNeverUpdated"
          THEN [ deleteCalled |-> FALSE, deleteFailed |-> FALSE, requeueAfter |-> 0, err |-> FALSE ]
          ELSE [ deleteCalled |-> TRUE, deleteFailed |-> deleteFails, requeueAfter |-> 0,
                 err |-> deleteFails ]

\* Liveness.Reconcile on a node created timeSinceCreation ago: whether it
\* calls kubeClient.Delete, whether the call fails, and what it returns.
ReconcileLiveness(timeSinceCreation, conditions, deleteFails) ==
  IF timeSinceCreation < LivenessTimeout
  THEN [ deleteCalled |-> FALSE, deleteFailed |-> FALSE,
         requeueAfter |-> LivenessTimeout - timeSinceCreation, err |-> FALSE ]
  ELSE LET condition == GetCondition(conditions, "Ready")
       IN IF condition.reason # "" /\ condition.reason # "NodeStatusNeverUpdated"
          THEN [ deleteCalled |-> FALSE, deleteFailed |-> FALSE, requeueAfter |-> 0, err |-> FALSE ]
          ELSE [ deleteCalled |-> TRUE, deleteFailed |-> deleteFails, requeueAfter |-> 0,
                 err |-> deleteFails ]

\* The ages of the nodes of the model, from a creation time ahead of the
\* clock of the controller to an age beyond the timeout.
MaxSkew == 1

MaxAge == 17

\* The conditions of the nodes: none, a Ready condition, a Ready condition
\* after another condition, and no Ready condition.
ConditionChoices ==
  { << >>, << NodeCondition("MemoryPressure", "KubeletHasSufficientMemory") >> }
    \cup { << NodeCondition("Ready", r) >> : r \in { "", "NodeStatusNeverUpdated", "KubeletReady", "KubeletNotReady" } }
    \cup { << NodeCondition("MemoryPressure", "KubeletHasSufficientMemory"), NodeCondition("Ready", r) >>
             : r \in { "", "NodeStatusNeverUpdated", "KubeletReady", "KubeletNotReady" } }

\* A call of Liveness.Reconcile. It keeps nothing from one call to the next,
\* so a behaviour makes one call.
Liveness_Reconcile(age, conditions) ==
  /\ liveness.pc = "idle"
  /\ \E deleteFails \in BOOLEAN :
       liveness' =
         LET r == ReconcileLiveness(age, conditions, deleteFails)
         IN [ pc |-> "returned", age |-> age, conditions |-> conditions,
              deleteCalled |-> r.deleteCalled, deleteFailed |-> r.deleteFailed,
              requeueAfter |-> r.requeueAfter, err |-> r.err ]
  /\ UNCHANGED << nodes, pods, budget, maxConcurrentReconciles, enqueued, volumeTopology,
                  nodeController, podController >>

SpecLiveness ==
  InitSelection
    /\ [][\E age \in (0 - MaxSkew)..MaxAge : \E conditions \in ConditionChoices :
             Liveness_Reconcile(age, conditions)]_vars

\* C26. Liveness reaper deadline: a call for a node younger than the
\* liveness timeout does not delete the node and asks for a requeue after
\* the time that remains; a call for a node at least that old deletes the
\* node if and only if the reason of its Ready condition is empty or
\* NodeStatusNeverUpdated; an error is returned if and only if the delete
\* failed.
C26_LivenessDeadline ==
  liveness.pc = "returned"
  => /\ liveness.age < LivenessTimeout
          => /\ ~liveness.deleteCalled
             /\ liveness.requeueAfter = LivenessTimeout - liveness.age
             /\ liveness.requeueAfter > 0
             /\ ~liveness.err
     /\ liveness.age >= LivenessTimeout
          => /\ liveness.deleteCalled = (GetCondition(liveness.conditions, "Ready").reason \in { "", "NodeStatusNeverUpdated" })
             /\ liveness.requeueAfter = 0
     /\ liveness.err = (liveness.deleteCalled /\ liveness.deleteFailed)

\* A node exactly as old as the timeout whose Ready condition has the
\* reason NodeStatusNeverUpdated has been deleted.
C26_Witness ==
  /\ liveness.pc = "returned"
  /\ liveness.age = LivenessTimeout
  /\ GetCondition(liveness.conditions, "Ready").reason = "NodeStatusNeverUpdated"
  /\ liveness.deleteCalled
  /\ ~liveness.deleteFailed

====
